---- MODULE Spec2Model ----
(***************************************************************************)
(* A model of react-videocall:                                             *)
(*   - the signal codec (src/lib/encryption.ts): encryptData/decryptData,  *)
(*     i.e. JSON.stringify -> CryptoJS.AES passphrase encryption and back; *)
(*   - the peer session wrapper (createPeer / handlePeerSignal) around a   *)
(*     simple-peer connection created with trickle: false;                 *)
(*   - the camera component's stream life cycle (CameraPhotoCapture).      *)
(*                                                                         *)
(* CryptoJS.AES with a passphrase is OpenSSL-compatible: a random salt, a  *)
(* key and IV derived from (passphrase, salt), CBC chaining, PKCS#7        *)
(* padding that is NOT validated when it is removed, and no integrity tag. *)
(* AES itself is scaled down to a keyed permutation of a 13-letter byte    *)
(* alphabet; everything around it (padding, chaining, salt header, UTF-8   *)
(* check, JSON parse) is modelled step by step.                            *)
(***************************************************************************)
EXTENDS Integers, Sequences, FiniteSets, TLC

VARIABLES
    \* ---- codec harness (pure functions applied to drawn inputs)
    cPc, cPayload, cKeyEnc, cKeyDec, cSalt, cCipher, cOut,
    \* ---- peer sessions
    key, pcState, answerPending, streamPending, remoteStreams,
    emitted, sent, calls, applied, chan, streams, errors, injected,
    \* ---- camera component
    stream, error, live, nextId, startPc, mediaStream, srcObject, photos

codecVars == <<cPc, cPayload, cKeyEnc, cKeyDec, cSalt, cCipher, cOut>>
peerVars  == <<key, pcState, answerPending, streamPending, remoteStreams,
               emitted, sent, calls, applied, chan, streams, errors, injected>>
camVars   == <<stream, error, live, nextId, startPc, mediaStream, srcObject, photos>>
vars      == <<codecVars, peerVars, camVars>>

(***************************************************************************)
(* Bounds of the model.                                                    *)
(***************************************************************************)
NumKeys   == 2      \* passphrases 1..NumKeys
MaxSalt   == 1      \* salts 0..MaxSalt drawn by an encryption
MaxInject == 1      \* strings passed to handlePeerSignal besides the delivered ones
MaxStarts == 3      \* startCamera invocations
MaxPhotos == 1      \* photos kept by capturePhoto

(***************************************************************************)
(* The byte alphabet.  BlockSize stands for the AES block (16 bytes), and  *)
(* ByteMod for the 256 byte values; ByteMod is prime so that every         *)
(* multiplier 1..ByteMod-1 gives a permutation of the bytes.               *)
(***************************************************************************)
BlockSize == 4
ByteMod   == 13

Byte == 0 .. (ByteMod - 1)

\* Letters.  1..BlockSize are the padding values; as with 0x0A in ASCII, one
\* of them (lf) is also JSON white space.  bad is a byte that is no UTF-8.
Ch == [nul |-> 0, lf |-> 2, d0 |-> 5, d1 |-> 6, lbrace |-> 7, rbrace |-> 8,
       o |-> 9, a |-> 10, bad |-> 11, x |-> 12]

Digits == {Ch.d0, Ch.d1}

Keys  == 1 .. NumKeys
Salts == 0 .. MaxSalt

\* Session descriptions and the payloads the codec is applied to: the
\* signals of a connection, and JSON numbers (JSON values that are no signal).
Sdps     == {0, 1}
Signals  == [type : {"offer", "answer"}, sdp : Sdps]
Numbers  == {[num |-> n] : n \in {0, 1}}
Payloads == Signals \cup Numbers

SyntaxError   == [error |-> "SyntaxError"]
MalformedUtf8 == [error |-> "Malformed UTF-8 data"]
IsError(v)    == "error" \in DOMAIN v

\* The element of a one-element set.  {F(x) : x \in {e}} is how a value e that
\* F uses many times is computed once.
Only(S) == CHOOSE v \in S : TRUE

(***************************************************************************)
(* JSON.stringify / JSON.parse over the alphabet.                          *)
(***************************************************************************)
DigitCh(n) == IF n = 0 THEN Ch.d0 ELSE Ch.d1
DigitVal(c) == IF c = Ch.d0 THEN 0 ELSE 1
TypeCh(t)  == IF t = "offer" THEN Ch.o ELSE Ch.a
TypeOf(c)  == IF c = Ch.o THEN "offer" ELSE "answer"

Stringify(p) ==
    IF "num" \in DOMAIN p
    THEN << DigitCh(p.num) >>
    ELSE << Ch.lbrace, TypeCh(p.type), DigitCh(p.sdp), Ch.rbrace >>

\* The text without its leading and trailing white space.
Strip(s) ==
    IF \A i \in 1 .. Len(s) : s[i] = Ch.lf THEN << >>
    ELSE LET first == CHOOSE i \in 1 .. Len(s) :
                          s[i] # Ch.lf /\ \A j \in 1 .. (i - 1) : s[j] = Ch.lf
             last  == CHOOSE i \in 1 .. Len(s) :
                          s[i] # Ch.lf /\ \A j \in (i + 1) .. Len(s) : s[j] = Ch.lf
         IN SubSeq(s, first, last)

\* The value of the first n digits of s as a decimal numeral.
RECURSIVE Decimal(_, _)
Decimal(s, n) ==
    IF n = 0 THEN 0 ELSE 10 * Decimal(s, n - 1) + DigitVal(s[n])

\* A JSON value with no white space around it: a number is digits with no
\* leading zero; an object is { type sdp }.
ParseValue(t) ==
    IF /\ Len(t) >= 1
       /\ \A i \in 1 .. Len(t) : t[i] \in Digits
       /\ (Len(t) > 1 => t[1] # Ch.d0)
    THEN [num |-> Decimal(t, Len(t))]
    ELSE IF /\ Len(t) = 4
            /\ t[1] = Ch.lbrace /\ t[2] \in {Ch.o, Ch.a}
            /\ t[3] \in Digits /\ t[4] = Ch.rbrace
    THEN [type |-> TypeOf(t[2]), sdp |-> DigitVal(t[3])]
    ELSE SyntaxError

\* JSON.parse: white space around one value.
JsonParse(s) == Only({ParseValue(t) : t \in {Strip(s)}})

(***************************************************************************)
(* CryptoJS.AES.encrypt(text, passphrase).toString() and                   *)
(* CryptoJS.AES.decrypt(ciphertext, passphrase).toString(Utf8).            *)
(***************************************************************************)
\* EvpKDF: the cipher key (a, c) and the IV from the passphrase and the salt.
KDF(pass, salt) ==
    [a  |-> ((pass * (salt + 1) + salt) % (ByteMod - 1)) + 1,
     c  |-> (5 * pass + 3 * salt) % ByteMod,
     iv |-> (pass + 7 * salt) % ByteMod]

\* The keyed byte permutation and its inverse.
E(k, b) == (k.a * b + k.c) % ByteMod
D(k, b) == CHOOSE p \in Byte : E(k, p) = b

\* PKCS#7: always pads, by 1..BlockSize bytes each holding the pad length.
Pad(s) ==
    LET n == BlockSize - (Len(s) % BlockSize) IN
    s \o [i \in 1 .. n |-> n]

\* CryptoJS's Pkcs7.unpad: the last byte is taken as the pad length and that
\* many bytes are dropped; the padding bytes are not looked at.
Unpad(s) ==
    IF s = << >> THEN s
    ELSE LET n == s[Len(s)] IN
         IF n >= Len(s) THEN << >> ELSE SubSeq(s, 1, Len(s) - n)

\* CBC: each byte is mixed with the previous ciphertext byte (the IV first).
CbcEncrypt(k, iv, s) ==
    LET c[i \in 0 .. Len(s)] ==
            IF i = 0 THEN iv ELSE E(k, (s[i] + c[i - 1]) % ByteMod)
    IN [i \in 1 .. Len(s) |-> c[i]]

CbcDecrypt(k, iv, s) ==
    [i \in 1 .. Len(s) |->
        (D(k, s[i]) + ByteMod - (IF i = 1 THEN iv ELSE s[i - 1])) % ByteMod]

\* The OpenSSL format: the salt, then the ciphertext.
AesEncrypt(text, pass, salt) ==
    LET k == KDF(pass, salt) IN
    << salt >> \o CbcEncrypt(k, k.iv, Pad(text))

\* The first byte is read as the salt and all that follows is decrypted, a
\* last block cut short included; the empty string decrypts to nothing.
AesDecrypt(ct, pass) ==
    IF ct = << >> THEN << >>
    ELSE LET k == KDF(pass, Head(ct)) IN
         Only({Unpad(padded) : padded \in {CbcDecrypt(k, k.iv, Tail(ct))}})

\* A plausible slip: the data is encrypted under the fallback key whatever
\* the configured key is.
encryptData_FallbackKey(secret, data, salt) ==
    AesEncrypt(Stringify(data), 1, salt)

\* encryptData with the module's SECRET_KEY and the salt CryptoJS draws.
encryptData(secret, data, salt) ==
    AesEncrypt(Stringify(data), secret, salt)

\* bytes.toString(CryptoJS.enc.Utf8) throws on bytes that are no UTF-8, and
\* JSON.parse throws on text that is no JSON.
Utf8ThenParse(bytes) ==
    IF \E i \in 1 .. Len(bytes) : bytes[i] = Ch.bad
    THEN MalformedUtf8
    ELSE JsonParse(bytes)

\* decryptData with the module's SECRET_KEY.
decryptData(secret, ciphertext) ==
    Only({Utf8ThenParse(bytes) : bytes \in {AesDecrypt(ciphertext, secret)}})

(***************************************************************************)
(* The codec applied to drawn inputs: a payload, the key of the encoding   *)
(* process, the key of the decoding process, and the salt CryptoJS draws.  *)
(***************************************************************************)
CodecIdle ==
    /\ cPc = "idle" /\ cPayload = [num |-> 0] /\ cKeyEnc = 1 /\ cKeyDec = 1
    /\ cSalt = 0 /\ cCipher = << >> /\ cOut = [num |-> 0]

CodecInit ==
    /\ cPc = "start"
    /\ cPayload \in Payloads
    /\ cKeyEnc \in Keys
    /\ cKeyDec \in Keys
    /\ cSalt \in Salts
    /\ cCipher = << >>
    /\ cOut = [num |-> 0]

CodecEncrypt ==
    /\ cPc = "start"
    /\ cCipher' = encryptData(cKeyEnc, cPayload, cSalt)
    /\ cPc' = "encrypted"
    /\ UNCHANGED <<cPayload, cKeyEnc, cKeyDec, cSalt, cOut, peerVars, camVars>>

CodecDecrypt ==
    /\ cPc = "encrypted"
    /\ cOut' = decryptData(cKeyDec, cCipher)
    /\ cPc' = "decrypted"
    /\ UNCHANGED <<cPayload, cKeyEnc, cKeyDec, cSalt, cCipher, peerVars, camVars>>

CodecNext == CodecEncrypt \/ CodecDecrypt

(***************************************************************************)
(* Peer sessions.  Session A is created with initiator = true, session B   *)
(* with initiator = false; each lives in a process with its own SECRET_KEY.*)
(* The caller's onSignal hands the string to a transport towards the other *)
(* session (chan); sent, emitted, calls and applied are the histories the  *)
(* properties are stated over.                                             *)
(***************************************************************************)
Peers == {"A", "B"}
Other(p) == IF p = "A" THEN "B" ELSE "A"

\* A plausible slip: the initiator flag is not passed on to the connection.
IsInitiator_Always(p) == TRUE

\* createPeer's initiator argument, handed to new SimplePeer({initiator, ...}).
IsInitiator(p) == p = "A"

IsSignal(d) == "type" \in DOMAIN d
IsOffer(d)  == IsSignal(d) /\ d.type = "offer"
IsAnswer(d) == IsSignal(d) /\ d.type = "answer"

\* The state after createPeer, for the keys of the two processes.
PeerInit ==
    /\ pcState = [p \in Peers |-> "new"]
    /\ answerPending = [p \in Peers |-> FALSE]
    /\ streamPending = [p \in Peers |-> FALSE]
    /\ remoteStreams = [p \in Peers |-> FALSE]
    /\ emitted = [p \in Peers |-> << >>]
    /\ sent = [p \in Peers |-> << >>]
    /\ calls = [p \in Peers |-> << >>]
    /\ applied = [p \in Peers |-> << >>]
    /\ chan = [p \in Peers |-> << >>]
    /\ streams = [p \in Peers |-> 0]
    /\ errors = [p \in Peers |-> 0]
    /\ injected = 0

\* A plausible slip: the handler passes the serialized signal on as it is.
onSignalValue_Raw(p, data, salt) == Stringify(data)

\* The value the 'signal' handler passes to onSignal.
onSignalValue(p, data, salt) == encryptData(key[p], data, salt)

\* A plausible slip: the handler keeps the newest signal first.
SignalHandler_Prepend(p, data, salt) ==
    LET encryptedSignal == onSignalValue(p, data, salt) IN
    /\ emitted' = [emitted EXCEPT ![p] = Append(@, data)]
    /\ sent' = [sent EXCEPT ![p] = << encryptedSignal >> \o @]
    /\ chan' = [chan EXCEPT ![Other(p)] = << encryptedSignal >> \o @]

\* peer.on('signal', data => onSignal(encryptData(data))): the connection
\* emits data, and the caller's onSignal sends the string towards the other
\* session.
SignalHandler(p, data, salt) ==
    LET encryptedSignal == onSignalValue(p, data, salt) IN
    /\ emitted' = [emitted EXCEPT ![p] = Append(@, data)]
    /\ sent' = [sent EXCEPT ![p] = Append(@, encryptedSignal)]
    /\ chan' = [chan EXCEPT ![Other(p)] = Append(@, encryptedSignal)]

\* A plausible slip: onStream is registered twice.
StreamHandler_Twice(p) == streams' = [streams EXCEPT ![p] = @ + 2]

\* peer.on('stream', onStream).
StreamHandler(p) == streams' = [streams EXCEPT ![p] = @ + 1]

\* peer.on('error', onError).
ErrorHandler(p) == errors' = [errors EXCEPT ![p] = @ + 1]

(***************************************************************************)
(* The connection (simple-peer, trickle: false).                           *)
(***************************************************************************)
\* The initiator creates its offer unasked.
ConnOffer(p, sdp, salt) ==
    /\ IsInitiator(p)
    /\ pcState[p] = "new"
    /\ pcState' = [pcState EXCEPT ![p] = "signaling"]
    /\ SignalHandler(p, [type |-> "offer", sdp |-> sdp], salt)
    /\ UNCHANGED <<key, answerPending, streamPending, remoteStreams, calls,
                   applied, streams, errors, injected, codecVars, camVars>>

\* An applied offer is answered once the remote description is set and ICE
\* gathering is complete.
ConnAnswer(p, sdp, salt) ==
    /\ answerPending[p]
    /\ ~streamPending[p]
    /\ pcState[p] # "destroyed"
    /\ answerPending' = [answerPending EXCEPT ![p] = FALSE]
    /\ pcState' = [pcState EXCEPT ![p] =
                      IF @ = "signaling" THEN "connecting" ELSE @]
    /\ SignalHandler(p, [type |-> "answer", sdp |-> sdp], salt)
    /\ UNCHANGED <<key, streamPending, remoteStreams, calls, applied,
                   streams, errors, injected, codecVars, camVars>>

\* The remote description brought a stream not seen before: 'stream' fires.
ConnStream(p) ==
    /\ streamPending[p]
    /\ pcState[p] # "destroyed"
    /\ streamPending' = [streamPending EXCEPT ![p] = FALSE]
    /\ StreamHandler(p)
    /\ UNCHANGED <<key, pcState, answerPending, remoteStreams, emitted, sent,
                   calls, applied, chan, errors, injected, codecVars, camVars>>

\* ICE connects once both ends hold both descriptions.
ConnConnect(p) ==
    /\ pcState[p] = "connecting"
    /\ ~streamPending[p]
    /\ pcState[Other(p)] \in {"connecting", "connected"}
    /\ pcState' = [pcState EXCEPT ![p] = "connected"]
    /\ UNCHANGED <<key, answerPending, streamPending, remoteStreams, emitted,
                   sent, calls, applied, chan, streams, errors, injected,
                   codecVars, camVars>>

\* ICE fails or the connection is lost: the peer is destroyed with an error.
ConnFail(p) ==
    /\ pcState[p] \in {"connecting", "connected"}
    /\ ~streamPending[p]
    /\ pcState' = [pcState EXCEPT ![p] = "destroyed"]
    /\ answerPending' = [answerPending EXCEPT ![p] = FALSE]
    /\ ErrorHandler(p)
    /\ UNCHANGED <<key, streamPending, remoteStreams, emitted, sent, calls,
                   applied, chan, streams, injected, codecVars, camVars>>

\* A plausible slip: a destroyed peer takes the signal as a live one would.
SignalOutcome_NoDestroyedCheck(p, data) ==
    IF IsOffer(data) /\ ~IsInitiator(p) THEN "offer"
    ELSE IF IsAnswer(data) /\ IsInitiator(p) /\ pcState[p] = "signaling"
    THEN "answer"
    ELSE "invalid"

\* What peer.signal(data) does in the connection's state:
\*   "threw"    the peer is destroyed, signal() throws;
\*   "offer"    a responder sets the remote offer;
\*   "answer"   an initiator that has sent its offer sets the remote answer;
\*   "invalid"  anything else destroys the peer with an error.
SignalOutcome(p, data) ==
    IF pcState[p] = "destroyed" THEN "threw"
    ELSE IF IsOffer(data) /\ ~IsInitiator(p) THEN "offer"
    ELSE IF IsAnswer(data) /\ IsInitiator(p) /\ pcState[p] = "signaling"
    THEN "answer"
    ELSE "invalid"

\* peer.signal(data).
PeerSignal(p, data) ==
    LET out == SignalOutcome(p, data) IN
    /\ applied' = [applied EXCEPT ![p] =
                      IF out = "threw" THEN @ ELSE Append(@, data)]
    /\ pcState' = [pcState EXCEPT ![p] =
                      IF out = "invalid" THEN "destroyed"
                      ELSE IF out = "answer" THEN "connecting"
                      ELSE IF out = "offer" /\ @ = "new" THEN "signaling"
                      ELSE @]
    /\ answerPending' = [answerPending EXCEPT ![p] =
                      IF out = "offer" THEN TRUE
                      ELSE IF out = "invalid" THEN FALSE ELSE @]
    /\ streamPending' = [streamPending EXCEPT ![p] =
                      IF out \in {"offer", "answer"} THEN @ \/ ~remoteStreams[p]
                      ELSE IF out = "invalid" THEN FALSE ELSE @]
    /\ remoteStreams' = [remoteStreams EXCEPT ![p] =
                      @ \/ out \in {"offer", "answer"}]
    /\ errors' = [errors EXCEPT ![p] = IF out = "invalid" THEN @ + 1 ELSE @]

\* The outcome of one handlePeerSignal call, as its caller sees it.
CallResult(p, signal) ==
    IF IsError(signal) THEN "decode_error"
    ELSE IF SignalOutcome(p, signal) = "threw" THEN "destroyed"
    ELSE "ok"

\* A plausible slip: a signal that does not decode is applied as an empty one.
handlePeerSignal_Swallow(p, encryptedSignal) ==
    \E signal \in {decryptData(key[p], encryptedSignal)} :
        /\ calls' = [calls EXCEPT ![p] =
               Append(@, [input |-> encryptedSignal,
                          result |-> CallResult(p, signal)])]
        /\ PeerSignal(p, IF IsError(signal) THEN [num |-> 0] ELSE signal)

\* handlePeerSignal(peer, encryptedSignal): decryptData throws before
\* peer.signal is reached, or peer.signal gets the decoded signal.
handlePeerSignal(p, encryptedSignal) ==
    \E signal \in {decryptData(key[p], encryptedSignal)} :
        /\ calls' = [calls EXCEPT ![p] =
               Append(@, [input |-> encryptedSignal,
                          result |-> CallResult(p, signal)])]
        /\ IF IsError(signal)
           THEN UNCHANGED <<pcState, answerPending, streamPending,
                            remoteStreams, applied, errors>>
           ELSE PeerSignal(p, signal)

(***************************************************************************)
(* The callers.                                                            *)
(***************************************************************************)
\* The transport delivers the oldest string sent towards p.
Deliver(p) ==
    /\ chan[p] # << >>
    /\ handlePeerSignal(p, Head(chan[p]))
    /\ chan' = [chan EXCEPT ![p] = Tail(@)]
    /\ UNCHANGED <<key, emitted, sent, streams, injected, codecVars, camVars>>

\* Strings a caller may pass besides the oldest undelivered one: the empty
\* string, a well-formed encryption of a value that is no signal, a replay
\* of a string the other session sent, and such a string cut short.
Foreign(p) ==
    LET theirs == sent[Other(p)] IN
    {<< >>, encryptData(key[p], [num |-> 0], 0)}
    \cup {theirs[i] : i \in 1 .. Len(theirs)}
    \cup {SubSeq(theirs[i], 1, Len(theirs[i]) - 1) : i \in 1 .. Len(theirs)}

Inject(p, s) ==
    /\ injected < MaxInject
    /\ injected' = injected + 1
    /\ handlePeerSignal(p, s)
    /\ UNCHANGED <<key, emitted, sent, chan, streams, codecVars, camVars>>

(***************************************************************************)
(* CameraPhotoCapture.  A media stream is a positive id, null is 0; live   *)
(* holds the streams whose tracks have not been stopped.  startPc[i] is    *)
(* the position of the i-th startCamera invocation:                        *)
(*   idle -> gum (await getUserMedia) -> meta (await loadedmetadata)       *)
(*        -> play (await video.play()) -> done.                            *)
(* isMountedRef.current is never written and stays true.  While error is   *)
(* set the component renders the error panel only: no button, no video.    *)
(***************************************************************************)
Starts == 1 .. MaxStarts

CamInit ==
    /\ stream = 0
    /\ error = FALSE
    /\ live = {}
    /\ nextId = 1
    /\ startPc = [i \in Starts |-> "idle"]
    /\ mediaStream = [i \in Starts |-> 0]
    /\ srcObject = 0
    /\ photos = 0

\* The toggle button while stream is null: startCamera() up to its first await.
ClickStart(i) ==
    /\ ~error
    /\ stream = 0
    /\ startPc[i] = "idle"
    /\ \A j \in Starts : j < i => startPc[j] # "idle"
    /\ startPc' = [startPc EXCEPT ![i] = "gum"]
    /\ UNCHANGED <<stream, error, live, nextId, mediaStream, srcObject,
                   photos, codecVars, peerVars>>

\* The toggle button while stream is set: handleStopCamera().
handleStopCamera ==
    /\ ~error
    /\ stream # 0
    /\ live' = live \ {stream}
    /\ stream' = 0
    /\ srcObject' = 0
    /\ error' = FALSE
    /\ UNCHANGED <<nextId, startPc, mediaStream, photos, codecVars, peerVars>>

\* getUserMedia resolves: setStream(mediaStream), and with the video element
\* rendered, srcObject is set and loadedmetadata is awaited.
GumResolve(i) ==
    /\ startPc[i] = "gum"
    /\ live' = live \cup {nextId}
    /\ mediaStream' = [mediaStream EXCEPT ![i] = nextId]
    /\ nextId' = nextId + 1
    /\ stream' = nextId
    /\ IF ~error
       THEN /\ srcObject' = nextId
            /\ startPc' = [startPc EXCEPT ![i] = "meta"]
       ELSE /\ srcObject' = srcObject
            /\ startPc' = [startPc EXCEPT ![i] = "done"]
    /\ UNCHANGED <<error, photos, codecVars, peerVars>>

\* getUserMedia rejects: the catch block sets the error.
GumReject(i) ==
    /\ startPc[i] = "gum"
    /\ startPc' = [startPc EXCEPT ![i] = "done"]
    /\ error' = TRUE
    /\ UNCHANGED <<stream, live, nextId, mediaStream, srcObject, photos,
                   codecVars, peerVars>>

\* The video element fires loadedmetadata: every waiting invocation goes on
\* to video.play().
LoadedMetadata ==
    /\ ~error
    /\ srcObject # 0
    /\ \E i \in Starts : startPc[i] = "meta"
    /\ startPc' = [i \in Starts |->
                      IF startPc[i] = "meta" THEN "play" ELSE startPc[i]]
    /\ UNCHANGED <<stream, error, live, nextId, mediaStream, srcObject,
                   photos, codecVars, peerVars>>

\* video.play() settles: resolved, rejected with a suppressed error
\* (AbortError, interrupted), or rejected with another error, which is
\* rethrown into the catch block.
PlaySettle(i, outcome) ==
    /\ startPc[i] = "play"
    /\ startPc' = [startPc EXCEPT ![i] = "done"]
    /\ error' = (error \/ outcome = "other")
    /\ UNCHANGED <<stream, live, nextId, mediaStream, srcObject, photos,
                   codecVars, peerVars>>

\* The Capture Photo button (rendered while stream is set): without a 2d
\* context the error is set, otherwise a photo is appended.
capturePhoto(hasContext) ==
    /\ ~error
    /\ stream # 0
    /\ IF hasContext
       THEN /\ photos < MaxPhotos
            /\ photos' = photos + 1
            /\ error' = error
       ELSE /\ photos' = photos
            /\ error' = TRUE
    /\ UNCHANGED <<stream, live, nextId, startPc, mediaStream, srcObject,
                   codecVars, peerVars>>

(***************************************************************************)
(* Specifications.                                                         *)
(***************************************************************************)
\* The codec on drawn inputs.
CodecSpecInit == CodecInit /\ PeerInit /\ key = [p \in Peers |-> 1] /\ CamInit
CodecSpec == CodecSpecInit /\ [][CodecNext]_vars

\* Two sessions whose callers may pass any string.  A's process runs with
\* the fallback key, B's with any key.
Init == CodecIdle /\ PeerInit /\ key \in [Peers -> Keys] /\ key["A"] = 1 /\ CamInit

Next ==
    \/ \E p \in Peers, sdp \in Sdps, salt \in Salts : ConnOffer(p, sdp, salt)
    \/ \E p \in Peers, sdp \in Sdps, salt \in Salts : ConnAnswer(p, sdp, salt)
    \/ \E p \in Peers : ConnStream(p)
    \/ \E p \in Peers : ConnConnect(p)
    \/ \E p \in Peers : ConnFail(p)
    \/ \E p \in Peers : Deliver(p)
    \/ \E p \in Peers : \E s \in Foreign(p) : Inject(p, s)

Spec == Init /\ [][Next]_vars

\* The connection's own steps are taken when they stay possible; callers and
\* the network are under no obligation.
ConnProgress ==
    /\ WF_vars(\E p \in Peers, sdp \in Sdps, salt \in Salts : ConnOffer(p, sdp, salt))
    /\ WF_vars(\E p \in Peers, sdp \in Sdps, salt \in Salts : ConnAnswer(p, sdp, salt))
    /\ WF_vars(\E p \in Peers : ConnStream(p))

FairSpec == Spec /\ ConnProgress

\* The loopback: one shared key, and each session's onSignal output is
\* delivered to the other session and nothing else is.
LoopInit ==
    /\ CodecIdle /\ PeerInit /\ CamInit
    /\ \E k \in Keys : key = [p \in Peers |-> k]

LoopNext ==
    \/ \E p \in Peers, sdp \in Sdps, salt \in Salts : ConnOffer(p, sdp, salt)
    \/ \E p \in Peers, sdp \in Sdps, salt \in Salts : ConnAnswer(p, sdp, salt)
    \/ \E p \in Peers : ConnStream(p)
    \/ \E p \in Peers : ConnConnect(p)
    \/ \E p \in Peers : ConnFail(p)
    \/ \E p \in Peers : Deliver(p)

LoopSpec ==
    /\ LoopInit /\ [][LoopNext]_vars
    /\ ConnProgress
    /\ WF_vars(\E p \in Peers : Deliver(p))

\* The camera component under clicks and media events.
CamSpecInit == CodecIdle /\ PeerInit /\ key = [p \in Peers |-> 1] /\ CamInit

CamNext ==
    \/ \E i \in Starts : ClickStart(i)
    \/ handleStopCamera
    \/ \E i \in Starts : GumResolve(i)
    \/ \E i \in Starts : GumReject(i)
    \/ LoadedMetadata
    \/ \E i \in Starts, o \in {"ok", "abort", "other"} : PlaySettle(i, o)
    \/ \E c \in BOOLEAN : capturePhoto(c)

CamSpec == CamSpecInit /\ [][CamNext]_vars

(***************************************************************************)
(* Properties.                                                             *)
(***************************************************************************)
Last(s) == s[Len(s)]

\* C1: round trip. Decoding, under the same key, the encoding of a payload
\* gives back that payload.
C1_RoundTrip ==
    (cPc = "decrypted" /\ cKeyEnc = cKeyDec) => cOut = cPayload

C1_Witness ==
    /\ cPc = "decrypted" /\ cKeyEnc = cKeyDec /\ cKeyEnc # 1
    /\ cPayload \in Signals /\ cOut = cPayload

\* C2: key mismatch. Decoding with another key than the one that encoded
\* ends in a decode error and never returns a value.
C2_KeyMismatchFails ==
    (cPc = "decrypted" /\ cKeyEnc # cKeyDec) => IsError(cOut)

\* C3: encrypted-only egress. Every value passed to onSignal is encryptData
\* of a signal the connection emitted, and none is a raw signal.
C3_EncryptedOnly ==
    \A p \in Peers : \A i \in 1 .. Len(sent[p]) :
        /\ \E j \in 1 .. Len(emitted[p]) : \E salt \in Salts :
               sent[p][i] = encryptData(key[p], emitted[p][j], salt)
        /\ \A j \in 1 .. Len(emitted[p]) :
               sent[p][i] # Stringify(emitted[p][j])

C3_Witness == sent["A"] # << >> /\ Len(sent["B"]) >= 2

\* C4: initiator/responder asymmetry. The responder B has passed nothing to
\* onSignal unless an offer was applied to it; the initiator A, as long as
\* handlePeerSignal is never called on it, eventually calls onSignal.
C4_Asymmetry ==
    /\ [](sent["B"] # << >> =>
              \E i \in 1 .. Len(applied["B"]) : IsOffer(applied["B"][i]))
    /\ ([](calls["A"] = << >>) => <>(sent["A"] # << >>))

C4_Witness ==
    /\ sent["A"] # << >> /\ calls["A"] = << >>
    /\ sent["B"] # << >> /\ IsOffer(applied["B"][1])

\* C5: end-to-end loopback. Every fair run comes to stay in states where the
\* offer and the answer have been exchanged and onStream has fired exactly
\* once on A and on B; it never fires twice.
AllExchanged ==
    /\ \A p \in Peers : chan[p] = << >> /\ Len(applied[p]) = 1
    /\ \A p \in Peers : Len(sent[p]) = 1

C5_Loopback ==
    /\ <>[](AllExchanged /\ \A p \in Peers : streams[p] = 1)
    /\ [](\A p \in Peers : streams[p] <= 1)

C5_Witness ==
    /\ AllExchanged
    /\ \A p \in Peers : streams[p] = 1 /\ pcState[p] = "connected"

\* C6: decode failure on ingress. A handlePeerSignal call whose string does
\* not decode ends with the decode error and leaves the connection alone.
C6_DecodeFailure ==
    [][\A p \in Peers :
          (calls'[p] # calls[p]
             /\ IsError(decryptData(key[p], Last(calls'[p]).input)))
          => /\ Last(calls'[p]).result = "decode_error"
             /\ applied'[p] = applied[p]
             /\ pcState'[p] = pcState[p]
             /\ answerPending'[p] = answerPending[p]
             /\ streamPending'[p] = streamPending[p]
             /\ errors'[p] = errors[p]]_vars

C6_Witness ==
    \E p \in Peers :
        /\ Len(calls[p]) = 2
        /\ calls[p][1].result = "ok"
        /\ calls[p][2].result = "decode_error"
        /\ pcState[p] # "destroyed"

\* C7, as stated: failure is terminal. After a decode failure or an onError
\* the session never becomes connected, never fires onStream and has no
\* further signal applied.
HadDecodeFailure(p) ==
    \E i \in 1 .. Len(calls[p]) : calls[p][i].result = "decode_error"

Quiet(p) ==
    /\ streams'[p] = streams[p]
    /\ applied'[p] = applied[p]
    /\ (pcState'[p] = "connected" => pcState[p] = "connected")

C7_FailureTerminal ==
    [][\A p \in Peers :
          (HadDecodeFailure(p) \/ errors[p] > 0) => Quiet(p)]_vars

\* C7, amended: a connection failure is terminal. After an onError the
\* session never becomes connected, never fires onStream and has no further
\* signal applied.
C7_ErrorTerminal ==
    [][\A p \in Peers : errors[p] > 0 => Quiet(p)]_vars

C7_Witness ==
    \E p \in Peers :
        /\ errors[p] > 0
        /\ Len(calls[p]) = 2
        /\ calls[p][1].result = "ok"
        /\ calls[p][2].result = "destroyed"

\* C8: order-preserving pass-through. The values passed to onSignal decode,
\* one by one, to the signals the connection emitted; the signals applied
\* to the connection are the decoded inputs of the handlePeerSignal calls
\* that returned, in call order.
Returned(c) == c.result = "ok"

C8_OrderPreserving ==
    \A p \in Peers :
        /\ Len(sent[p]) = Len(emitted[p])
        /\ \A i \in 1 .. Len(sent[p]) :
               decryptData(key[p], sent[p][i]) = emitted[p][i]
        /\ LET ok == SelectSeq(calls[p], Returned) IN
           applied[p] = [i \in 1 .. Len(ok) |-> decryptData(key[p], ok[i].input)]

C8_Witness ==
    /\ Len(emitted["B"]) = 2 /\ emitted["B"][1] # emitted["B"][2]
    /\ Len(applied["A"]) = 2 /\ applied["A"][1] # applied["A"][2]

\* C9: no leaked camera stream. Every stream with live tracks is the one
\* held in the stream state.
C9_NoLeakedStream == \A s \in live : s = stream

\* C10: the error state holds no live camera. While error is set no stream
\* has live tracks and the stream state is null.
C10_ErrorHoldsNoCamera == error => (live = {} /\ stream = 0)

====
